---------------------------- MODULE Spec2Model ----------------------------
(***************************************************************************)
(* A model of homework.py: the fitness-tracker calculators (Training and   *)
(* its variants Running, SportsWalking, Swimming), the InfoMessage record  *)
(* and its formatter, the factory read_package and the driver loop.        *)
(*                                                                         *)
(* Numbers.  Python's numbers are modelled as exact rationals n/d in       *)
(* lowest terms (d > 0).  Float rounding error is therefore not modelled;  *)
(* what is modelled is the order of the operations, the constants, and     *)
(* where a division by zero raises ZeroDivisionError.                      *)
(*                                                                         *)
(* Calls.  Every method is an operator that returns an outcome             *)
(*   [exc, val, calls]                                                     *)
(* exc is "None" or the name of the exception that propagates, val is the  *)
(* returned value (or the exception's message), calls is the set of the    *)
(* method bodies that ran, each named Class.method after the class whose   *)
(* body was selected by Python's attribute lookup.                         *)
(***************************************************************************)
EXTENDS Integers, Sequences, FiniteSets, TLC

VARIABLES heap, ret, packages, pc, training, stdout, err

vars == <<heap, ret, packages, pc, training, stdout, err>>

-----------------------------------------------------------------------------
(* Exact rational arithmetic *)

Abs(x) == IF x < 0 THEN -x ELSE x

RECURSIVE GCD(_, _)
GCD(a, b) == IF b = 0 THEN a ELSE GCD(b, a % b)

\* n/d in lowest terms with a positive denominator (d # 0)
Frac(n, d) ==
    LET g == GCD(Abs(n), Abs(d))
        s == IF d < 0 THEN -1 ELSE 1
    IN  [n |-> s * (n \div g), d |-> s * (d \div g)]

Num(i) == [n |-> i, d |-> 1]

IsZero(a) == a.n = 0

\* a * b, cross-reduced before multiplying
Mul(a, b) ==
    LET g1 == GCD(Abs(a.n), b.d)
        g2 == GCD(Abs(b.n), a.d)
    IN  [n |-> (a.n \div g1) * (b.n \div g2), d |-> (a.d \div g2) * (b.d \div g1)]

\* a + b over the least common denominator
Add(a, b) ==
    LET g == GCD(a.d, b.d)
    IN  Frac(a.n * (b.d \div g) + b.n * (a.d \div g), (a.d \div g) * b.d)

\* 1 / a (a # 0)
Inv(a) == IF a.n < 0 THEN [n |-> -a.d, d |-> -a.n] ELSE [n |-> a.d, d |-> a.n]

\* a / b (b # 0)
Quot(a, b) == Mul(a, Inv(b))

-----------------------------------------------------------------------------
(* Outcomes of calls *)

NoVal == "<no value>"

Ok(v, c) == [exc |-> "None", val |-> v, calls |-> c]

Raise(e, msg, c) == [exc |-> e, val |-> msg, calls |-> c]

\* a division that yields 0 instead of raising when y = 0
DivGuarded(x, y, c) == IF IsZero(y) THEN Ok(Num(0), c) ELSE Ok(Quot(x, y), c)

\* Python's true division x / y: ZeroDivisionError when y = 0
Div(x, y, c) ==
    IF IsZero(y) THEN Raise("ZeroDivisionError", "division by zero", c)
    ELSE Ok(Quot(x, y), c)

-----------------------------------------------------------------------------
(* The classes: their attributes and Python's attribute lookup *)

object == "object"

\* class statements: each class's single base
Bases ==
    [Training |-> object, Running |-> "Training",
     SportsWalking |-> "Training", Swimming |-> "Training"]

M_IN_KM == 1000

MIN_IN_H == 60

Training_LEN_STEP == Frac(65, 100)

Running_CALORIES_MEAN_SPEED_MULTIPLIER == 18

Running_CALORIES_MEAN_SPEED_SHIFT == Frac(179, 100)

SportsWalking_CALORIES_WEIGHT_MULTIPLIER == Frac(35, 1000)

SportsWalking_CALORIES_SPEED_HEIGHT_MULTIPLIER == Frac(29, 1000)

KMH_IN_MSEC == Frac(278, 1000)

CM_IN_M == 100

Swimming_LEN_STEP == Frac(138, 100)

Swimming_CALORIES_MEAN_SPEED_MULTIPLIER == Frac(11, 10)

CALORIES_WEIGHT_SHIFT == 2

\* the data attributes each class body defines
ClassDict ==
    [Training |->
        [LEN_STEP |-> Training_LEN_STEP, M_IN_KM |-> Num(M_IN_KM),
         MIN_IN_H |-> Num(MIN_IN_H)],
     Running |->
        [CALORIES_MEAN_SPEED_MULTIPLIER |->
             Num(Running_CALORIES_MEAN_SPEED_MULTIPLIER),
         CALORIES_MEAN_SPEED_SHIFT |-> Running_CALORIES_MEAN_SPEED_SHIFT],
     SportsWalking |->
        [CALORIES_WEIGHT_MULTIPLIER |-> SportsWalking_CALORIES_WEIGHT_MULTIPLIER,
         CALORIES_SPEED_HEIGHT_MULTIPLIER |->
             SportsWalking_CALORIES_SPEED_HEIGHT_MULTIPLIER,
         KMH_IN_MSEC |-> KMH_IN_MSEC, CM_IN_M |-> Num(CM_IN_M)],
     Swimming |->
        [LEN_STEP |-> Swimming_LEN_STEP,
         CALORIES_MEAN_SPEED_MULTIPLIER |-> Swimming_CALORIES_MEAN_SPEED_MULTIPLIER,
         CALORIES_WEIGHT_SHIFT |-> Num(CALORIES_WEIGHT_SHIFT)]]

\* a slip: Swimming without its own get_mean_speed
MethodsNoSwimmingSpeed ==
    [Training |-> {"__init__", "get_distance", "get_mean_speed",
                   "get_spent_calories", "show_training_info"},
     Running |-> {"get_spent_calories"},
     SportsWalking |-> {"__init__", "get_spent_calories"},
     Swimming |-> {"__init__", "get_spent_calories"}]

\* a slip: Running without its own get_spent_calories
MethodsNoRunningCalories ==
    [Training |-> {"__init__", "get_distance", "get_mean_speed",
                   "get_spent_calories", "show_training_info"},
     Running |-> {},
     SportsWalking |-> {"__init__", "get_spent_calories"},
     Swimming |-> {"__init__", "get_mean_speed", "get_spent_calories"}]

\* the methods each class body defines
Methods ==
    [Training |-> {"__init__", "get_distance", "get_mean_speed",
                   "get_spent_calories", "show_training_info"},
     Running |-> {"get_spent_calories"},
     SportsWalking |-> {"__init__", "get_spent_calories"},
     Swimming |-> {"__init__", "get_mean_speed", "get_spent_calories"}]

\* self.NAME for a class attribute: the class's own, else its base's
RECURSIVE GetAttr(_, _)
GetAttr(cls, name) ==
    IF name \in DOMAIN ClassDict[cls] THEN ClassDict[cls][name]
    ELSE GetAttr(Bases[cls], name)

\* the class whose body of method m runs for an instance of cls
RECURSIVE Resolve(_, _)
Resolve(cls, m) ==
    IF m \in Methods[cls] THEN cls ELSE Resolve(Bases[cls], m)

\* the outcome r of a callee, propagated through the method bodies in c
Propagate(r, c) == [r EXCEPT !.calls = @ \cup c]

-----------------------------------------------------------------------------
(* InfoMessage *)

InfoMessage(training_type, duration, distance, speed, calories) ==
    [training_type |-> training_type, duration |-> duration,
     distance |-> distance, speed |-> speed, calories |-> calories]

\* k thousandths as sign, integer part and three digits after the point
Digits(neg, k) ==
    [sign |-> IF neg THEN "-" ELSE "", int |-> k \div 1000, frac |-> k % 1000]

\* m.n / m.d rounded to the nearest integer, ties to even
RoundHalfEven(m) ==
    IF 2 * (m.n % m.d) > m.d \/ (2 * (m.n % m.d) = m.d /\ (m.n \div m.d) % 2 = 1)
    THEN (m.n \div m.d) + 1 ELSE m.n \div m.d

\* format(x, '.3f')
ROUND_FLOAT_VAR(x) ==
    Digits(x.n < 0, RoundHalfEven(Mul([n |-> Abs(x.n), d |-> x.d], Num(1000))))

\* InfoMessage.get_message: the template with its five fields filled in
\* (the template's fixed Russian words are written here in English)
get_message(self) ==
    <<"Training type: ", self.training_type,
      "; Duration: ", ROUND_FLOAT_VAR(self.duration),
      " h; Distance: ", ROUND_FLOAT_VAR(self.distance),
      " km; Mean speed: ", ROUND_FLOAT_VAR(self.speed),
      " km/h; Calories: ", ROUND_FLOAT_VAR(self.calories), ".">>

-----------------------------------------------------------------------------
(* Training and its variants.  self is a record: cls (the instance's       *)
(* class) and the attributes __init__ assigned.                            *)

Training_init(cls, a) ==
    [cls |-> cls, action |-> a[1], duration |-> a[2], weight |-> a[3]]

SportsWalking_init(cls, a) ==
    Training_init(cls, <<a[1], a[2], a[3]>>) @@ [height |-> a[4]]

\* a slip: the two pool arguments stored the other way round
Swimming_init_swapped(cls, a) ==
    Training_init(cls, <<a[1], a[2], a[3]>>)
        @@ [length_pool |-> a[5], count_pool |-> a[4]]

Swimming_init(cls, a) ==
    Training_init(cls, <<a[1], a[2], a[3]>>)
        @@ [length_pool |-> a[4], count_pool |-> a[5]]

\* the number of positional arguments each __init__ takes besides self
InitArity == [Training |-> 3, SportsWalking |-> 4, Swimming |-> 5]

\* a slip: Training.LEN_STEP in place of self.LEN_STEP
Training_get_distance_static(self) ==
    Ok(Quot(Mul(self.action, GetAttr("Training", "LEN_STEP")),
            GetAttr(self.cls, "M_IN_KM")),
       {"Training.get_distance"})

Training_get_distance(self) ==
    Ok(Quot(Mul(self.action, GetAttr(self.cls, "LEN_STEP")),
            GetAttr(self.cls, "M_IN_KM")),
       {"Training.get_distance"})

get_distance(self) == Training_get_distance(self)

\* the body of Training.get_mean_speed once self.get_distance() gave d
MeanSpeedFrom(self, d) ==
    IF d.exc # "None" THEN Propagate(d, {"Training.get_mean_speed"})
    ELSE Div(d.val, self.duration, d.calls \cup {"Training.get_mean_speed"})

Training_get_mean_speed(self) == MeanSpeedFrom(self, get_distance(self))

Swimming_get_mean_speed(self) ==
    Div(Quot(Mul(self.length_pool, self.count_pool),
             GetAttr(self.cls, "M_IN_KM")),
        self.duration, {"Swimming.get_mean_speed"})

get_mean_speed(self) ==
    IF Resolve(self.cls, "get_mean_speed") = "Swimming"
    THEN Swimming_get_mean_speed(self)
    ELSE Training_get_mean_speed(self)

Training_get_spent_calories(self) ==
    Raise("NotImplementedError",
          <<"In class \"", self.cls,
            "\" is not implemented method \"get_spent_calories\"">>,
          {"Training.get_spent_calories"})

\* the body of Running.get_spent_calories once self.get_mean_speed() gave ms
RunningCaloriesFrom(self, ms) ==
    IF ms.exc # "None" THEN Propagate(ms, {"Running.get_spent_calories"})
    ELSE Ok(Mul(Quot(Mul(Add(Mul(GetAttr(self.cls,
                                         "CALORIES_MEAN_SPEED_MULTIPLIER"),
                                 ms.val),
                             GetAttr(self.cls, "CALORIES_MEAN_SPEED_SHIFT")),
                         self.weight),
                     GetAttr(self.cls, "M_IN_KM")),
                Mul(self.duration, GetAttr(self.cls, "MIN_IN_H"))),
            ms.calls \cup {"Running.get_spent_calories"})

Running_get_spent_calories(self) ==
    RunningCaloriesFrom(self, get_mean_speed(self))

\* x ** 2
Sq(x) == Mul(x, x)

\* the rest of SportsWalking.get_spent_calories once the division by
\* (self.height / self.CM_IN_M) gave q
WalkingCaloriesOver(self, q) ==
    IF q.exc # "None" THEN q
    ELSE Ok(Mul(Add(Mul(GetAttr(self.cls, "CALORIES_WEIGHT_MULTIPLIER"),
                        self.weight),
                    Mul(Mul(q.val,
                            GetAttr(self.cls, "CALORIES_SPEED_HEIGHT_MULTIPLIER")),
                        self.weight)),
                Mul(self.duration, GetAttr(self.cls, "MIN_IN_H"))),
            q.calls)

\* the body of SportsWalking.get_spent_calories once self.get_mean_speed()
\* gave ms
WalkingCaloriesFrom(self, ms) ==
    IF ms.exc # "None" THEN Propagate(ms, {"SportsWalking.get_spent_calories"})
    ELSE WalkingCaloriesOver(self,
             Div(Sq(Mul(ms.val, GetAttr(self.cls, "KMH_IN_MSEC"))),
                 Quot(self.height, GetAttr(self.cls, "CM_IN_M")),
                 ms.calls \cup {"SportsWalking.get_spent_calories"}))

SportsWalking_get_spent_calories(self) ==
    WalkingCaloriesFrom(self, get_mean_speed(self))

\* the body of Swimming.get_spent_calories once self.get_mean_speed() gave ms
SwimmingCaloriesFrom(self, ms) ==
    IF ms.exc # "None" THEN Propagate(ms, {"Swimming.get_spent_calories"})
    ELSE Ok(Mul(Mul(Mul(Add(ms.val,
                            GetAttr(self.cls, "CALORIES_MEAN_SPEED_MULTIPLIER")),
                        GetAttr(self.cls, "CALORIES_WEIGHT_SHIFT")),
                    self.weight),
                self.duration),
            ms.calls \cup {"Swimming.get_spent_calories"})

Swimming_get_spent_calories(self) ==
    SwimmingCaloriesFrom(self, get_mean_speed(self))

\* the body that lookup selects for an instance whose class resolves the
\* method to class c
SpentCaloriesOf(c, self) ==
    CASE c = "Running" -> Running_get_spent_calories(self)
      [] c = "SportsWalking" -> SportsWalking_get_spent_calories(self)
      [] c = "Swimming" -> Swimming_get_spent_calories(self)
      [] OTHER -> Training_get_spent_calories(self)

get_spent_calories(self) ==
    SpentCaloriesOf(Resolve(self.cls, "get_spent_calories"), self)

\* InfoMessage(...) of show_training_info once its three calls gave d, s
\* and c: the arguments are evaluated left to right and the first exception
\* propagates
InfoFrom(self, d, s, c) ==
    IF d.exc # "None" THEN Propagate(d, {"Training.show_training_info"})
    ELSE IF s.exc # "None"
    THEN Propagate(s, d.calls \cup {"Training.show_training_info"})
    ELSE IF c.exc # "None"
    THEN Propagate(c, d.calls \cup s.calls \cup {"Training.show_training_info"})
    ELSE Ok(InfoMessage(self.cls, self.duration, d.val, s.val, c.val),
            d.calls \cup s.calls \cup c.calls
                \cup {"Training.show_training_info"})

\* a slip: Training.get_mean_speed(self) in place of self.get_mean_speed()
show_training_info_static(self) ==
    InfoFrom(self, get_distance(self), Training_get_mean_speed(self),
             get_spent_calories(self))

show_training_info(self) ==
    InfoFrom(self, get_distance(self), get_mean_speed(self),
             get_spent_calories(self))

-----------------------------------------------------------------------------
(* The factory *)

types_training ==
    [WLK |-> "SportsWalking", RUN |-> "Running", SWM |-> "Swimming"]

\* the instance the __init__ of class i builds for class cls
InitOf(i, cls, data) ==
    CASE i = "SportsWalking" -> SportsWalking_init(cls, data)
      [] i = "Swimming" -> Swimming_init(cls, data)
      [] OTHER -> Training_init(cls, data)

\* the __init__ bodies that run: class i's, and through super() Training's
InitCalls(i) == {i \o ".__init__", "Training.__init__"}

\* binding data to the parameters of the __init__ of class i; the text of
\* the TypeError is modelled by the function it names
\* a slip: surplus positional arguments are swallowed
BindLenient(i, cls, data) ==
    IF Len(data) < InitArity[i]
    THEN Raise("TypeError",
               <<i, ".__init__() got a wrong number of positional arguments">>,
               {})
    ELSE Ok(InitOf(i, cls, data), InitCalls(i))

Bind(i, cls, data) ==
    IF Len(data) # InitArity[i]
    THEN Raise("TypeError",
               <<i, ".__init__() got a wrong number of positional arguments">>,
               {})
    ELSE Ok(InitOf(i, cls, data), InitCalls(i))

\* cls(*data): the call binds data to the parameters of the __init__ that
\* lookup selects; a wrong count is a TypeError raised before any body runs
Construct(cls, data) == Bind(Resolve(cls, "__init__"), cls, data)

\* a slip: the message of the error does not name the code
read_package_nocode(workout_type, data) ==
    IF workout_type \in DOMAIN types_training
    THEN Construct(types_training[workout_type], data)
    ELSE Raise("ValueError", <<"Unknown type of training">>, {})

read_package(workout_type, data) ==
    IF workout_type \in DOMAIN types_training
    THEN Construct(types_training[workout_type], data)
    ELSE Raise("ValueError",
               <<"Unknown type of training \"", workout_type, "\"">>, {})

-----------------------------------------------------------------------------
(* Bounds and inputs *)

\* calculators a client of the factory holds at once
MaxObjs == 1

\* Swimming calculators held at once when two of them are compared
MaxSwimmers == 2

\* consecutive calls of one method on one calculator
MaxCalls == 2

\* longest value sequence handed to read_package
MaxLen == 6

\* records in the script's list
MaxPackages == 3

None == "None"

\* type codes: the three of the mapping, and two that are not in it
WorkoutTypes == {"RUN", "WLK", "SWM", "BIKE", "run"}

\* the values tried at position k of a value sequence: action, duration,
\* weight, height or length_pool, count_pool, and one value past them
ArgValues(k) ==
    CASE k = 1 -> {Num(-10000), Num(0), Num(10000)}
      [] k = 2 -> {Num(0), Frac(1, 2), Num(1)}
      [] k = 3 -> {Num(75), Num(80)}
      [] k = 4 -> {Num(0), Num(100)}
      [] k = 5 -> {Num(40)}
      [] OTHER -> {Num(1)}

RECURSIVE Tuples(_)
Tuples(n) ==
    IF n = 0 THEN {<<>>}
    ELSE {Append(t, v) : t \in Tuples(n - 1), v \in ArgValues(n)}

Datas == UNION {Tuples(n) : n \in 0..MaxLen}

\* value sequences for Swimming calculators that are compared with each other
SwimDatas ==
    {<<a, d, w, l, c>> : a \in {Num(0), Num(720)},
                         d \in {Num(0), Frac(1, 2), Num(1)},
                         w \in {Num(75), Num(80)},
                         l \in {Num(25), Num(50)},
                         c \in {Num(40)}}

\* the records the script's list is drawn from: the script's own records for
\* SWM and RUN, a WLK record, and records that make an iteration fail
Packages ==
    {<<"SWM", <<Num(720), Num(1), Num(80), Num(25), Num(40)>>>>,
     <<"RUN", <<Num(15000), Num(1), Num(75)>>>>,
     <<"WLK", <<Num(10000), Num(1), Num(75), Num(100)>>>>,
     <<"BIKE", <<Num(100), Num(1), Num(75)>>>>,
     <<"RUN", <<Num(15000), Num(0), Num(75)>>>>,
     <<"WLK", <<Num(9000), Num(1), Num(75)>>>>}

PackageLists == UNION {[1..n -> Packages] : n \in 0..MaxPackages}

-----------------------------------------------------------------------------
(* State                                                                   *)
(*   heap      the calculators the client holds, by reference 1..Len       *)
(*   ret       the client's most recent call: its operation, receiver,     *)
(*             arguments and outcome; n counts the consecutive calls of    *)
(*             this operation on this receiver, first is the outcome of    *)
(*             the first of them and before the receiver as it was then    *)
(*             (for read_package: the heap as it was before the call).     *)
(*             The client catches nothing: an exception ends its run.      *)
(*   packages  the script's list; pc the script's position in it           *)
(*   training  the script's variable of that name                          *)
(*   stdout    the lines printed; err the exception that ended the script  *)

NoCall ==
    [op |-> "none", self |-> 0, args |-> <<>>, exc |-> None, val |-> NoVal,
     calls |-> {}, n |-> 0, first |-> NoVal, before |-> NoVal]

Init ==
    /\ heap = <<>>
    /\ ret = NoCall
    /\ packages = <<>>
    /\ pc = [i |-> 1, at |-> "done"]
    /\ training = None
    /\ stdout = <<>>
    /\ err = None

driver == <<packages, pc, training, stdout, err>>

\* the client's call of read_package with outcome r
Returned(workout_type, data, r) ==
    /\ heap' = IF r.exc = None THEN Append(heap, r.val) ELSE heap
    /\ ret' = [op |-> "read_package", self |-> 0,
               args |-> <<workout_type, data>>, exc |-> r.exc,
               val |-> IF r.exc = None THEN Len(heap) + 1 ELSE r.val,
               calls |-> r.calls, n |-> 1, first |-> NoVal, before |-> heap]

\* read_package(workout_type, data) called by the client
ReadPackage(workout_type, data) ==
    /\ ret.exc = None
    /\ \E r \in {read_package(workout_type, data)} :
           Returned(workout_type, data, r)
    /\ UNCHANGED driver

\* a method call on calculator o with outcome r
Called(op, o, r) ==
    /\ ret.exc = None
    /\ (ret.op = op /\ ret.self = o) => ret.n < MaxCalls
    /\ ret' = [op |-> op, self |-> o, args |-> <<>>, exc |-> r.exc,
               val |-> r.val, calls |-> r.calls,
               n |-> IF ret.op = op /\ ret.self = o THEN ret.n + 1 ELSE 1,
               first |-> IF ret.op = op /\ ret.self = o THEN ret.first
                         ELSE [exc |-> r.exc, val |-> r.val],
               before |-> IF ret.op = op /\ ret.self = o THEN ret.before
                          ELSE heap[o]]

GetDistance(o) ==
    /\ \E r \in {get_distance(heap[o])} : Called("get_distance", o, r)
    /\ UNCHANGED <<heap, driver>>

GetMeanSpeed(o) ==
    /\ \E r \in {get_mean_speed(heap[o])} : Called("get_mean_speed", o, r)
    /\ UNCHANGED <<heap, driver>>

GetSpentCalories(o) ==
    /\ \E r \in {get_spent_calories(heap[o])} : Called("get_spent_calories", o, r)
    /\ UNCHANGED <<heap, driver>>

\* a slip: the summary also resets the calculator's action count
ShowTrainingInfoResetting(o) ==
    /\ \E r \in {show_training_info(heap[o])} : Called("show_training_info", o, r)
    /\ heap' = [heap EXCEPT ![o].action = Num(0)]
    /\ UNCHANGED driver

ShowTrainingInfo(o) ==
    /\ \E r \in {show_training_info(heap[o])} : Called("show_training_info", o, r)
    /\ UNCHANGED <<heap, driver>>

Next ==
    \/ /\ Len(heap) < MaxObjs
       /\ \E workout_type \in WorkoutTypes, data \in Datas :
              ReadPackage(workout_type, data)
    \/ \E o \in 1..Len(heap) : GetDistance(o)
    \/ \E o \in 1..Len(heap) : GetMeanSpeed(o)
    \/ \E o \in 1..Len(heap) : GetSpentCalories(o)
    \/ \E o \in 1..Len(heap) : ShowTrainingInfo(o)

Spec == Init /\ [][Next]_vars

-----------------------------------------------------------------------------
(* A client that builds several Swimming calculators and asks each for its *)
(* mean speed                                                              *)

NextSwimmers ==
    \/ /\ Len(heap) < MaxSwimmers
       /\ \E data \in SwimDatas : ReadPackage("SWM", data)
    \/ \E o \in 1..Len(heap) : GetMeanSpeed(o)

SpecSwimmers == Init /\ [][NextSwimmers]_vars

-----------------------------------------------------------------------------
(* The script: for workout_type, data in packages: read_package, main *)

InitMain ==
    /\ heap = <<>>
    /\ ret = NoCall
    /\ packages \in PackageLists
    /\ pc = [i |-> 1, at |-> IF packages = <<>> THEN "done" ELSE "read_package"]
    /\ training = None
    /\ stdout = <<>>
    /\ err = None

\* after the body of iteration i: the next record, or the end of the list
Advance(i) ==
    [i |-> i + 1, at |-> IF i < Len(packages) THEN "read_package" ELSE "done"]

\* a slip: the loop catches the error and goes on with the next record
LoopReadPackageCatching ==
    /\ pc.at = "read_package"
    /\ \E r \in {read_package(packages[pc.i][1], packages[pc.i][2])} :
           IF r.exc = None
           THEN /\ training' = r.val
                /\ pc' = [pc EXCEPT !.at = "main"]
           ELSE /\ pc' = Advance(pc.i)
                /\ training' = training
    /\ UNCHANGED <<heap, ret, packages, stdout, err>>

\* training = read_package(workout_type, data)
LoopReadPackage ==
    /\ pc.at = "read_package"
    /\ \E r \in {read_package(packages[pc.i][1], packages[pc.i][2])} :
           IF r.exc = None
           THEN /\ training' = r.val
                /\ pc' = [pc EXCEPT !.at = "main"]
                /\ err' = err
           ELSE /\ err' = [exc |-> r.exc, val |-> r.val]
                /\ pc' = [pc EXCEPT !.at = "aborted"]
                /\ training' = training
    /\ UNCHANGED <<heap, ret, packages, stdout>>

\* main(training): show_training_info, then print the message
main ==
    /\ pc.at = "main"
    /\ \E info \in {show_training_info(training)} :
           IF info.exc = None
           THEN /\ stdout' = Append(stdout, get_message(info.val))
                /\ pc' = Advance(pc.i)
                /\ err' = err
           ELSE /\ err' = [exc |-> info.exc, val |-> info.val]
                /\ pc' = [pc EXCEPT !.at = "aborted"]
                /\ stdout' = stdout
    /\ UNCHANGED <<heap, ret, packages, training>>

NextMain == LoopReadPackage \/ main

SpecMain == InitMain /\ [][NextMain]_vars

-----------------------------------------------------------------------------
(* Properties *)

\* the receiver of the client's most recent method call
Self == heap[ret.self]

KnownCodes == {"RUN", "WLK", "SWM"}

\* C1: read_package with a valid code and a value sequence of the matching
\* length (RUN 3, WLK 4, SWM 5) returns a calculator of the class the code
\* names (RUN Running, WLK SportsWalking, SWM Swimming) whose attributes
\* hold the values in positional order.
C1_FactoryBuildsVariant ==
    ret.op = "read_package" =>
      /\ (ret.args[1] = "RUN" /\ Len(ret.args[2]) = 3) =>
           /\ ret.exc = None
           /\ heap = Append(ret.before,
                            [cls |-> "Running", action |-> ret.args[2][1],
                             duration |-> ret.args[2][2],
                             weight |-> ret.args[2][3]])
           /\ ret.val = Len(heap)
      /\ (ret.args[1] = "WLK" /\ Len(ret.args[2]) = 4) =>
           /\ ret.exc = None
           /\ heap = Append(ret.before,
                            [cls |-> "SportsWalking", action |-> ret.args[2][1],
                             duration |-> ret.args[2][2],
                             weight |-> ret.args[2][3],
                             height |-> ret.args[2][4]])
           /\ ret.val = Len(heap)
      /\ (ret.args[1] = "SWM" /\ Len(ret.args[2]) = 5) =>
           /\ ret.exc = None
           /\ heap = Append(ret.before,
                            [cls |-> "Swimming", action |-> ret.args[2][1],
                             duration |-> ret.args[2][2],
                             weight |-> ret.args[2][3],
                             length_pool |-> ret.args[2][4],
                             count_pool |-> ret.args[2][5]])
           /\ ret.val = Len(heap)

\* a Swimming calculator was returned whose two pool attributes differ
C1_Witness ==
    /\ ret.op = "read_package" /\ ret.exc = None /\ ret.args[1] = "SWM"
    /\ heap[ret.val].cls = "Swimming"
    /\ heap[ret.val].length_pool = Num(100)
    /\ heap[ret.val].count_pool = Num(40)

\* C2: read_package with a code outside the mapping, whatever the value
\* sequence and its length, raises ValueError whose message holds the code;
\* no __init__ ran and the client holds no calculator it did not hold before.
C2_UnknownCodeRaises ==
    (ret.op = "read_package" /\ ret.args[1] \notin KnownCodes) =>
      /\ ret.exc = "ValueError"
      /\ ret.val = <<"Unknown type of training \"", ret.args[1], "\"">>
      /\ ret.calls = {}
      /\ heap = ret.before

\* an unknown code was tried with a value sequence that would fit Swimming
C2_Witness ==
    /\ ret.op = "read_package" /\ ret.args[1] = "BIKE" /\ Len(ret.args[2]) = 5
    /\ ret.exc = "ValueError"

\* C3 as amended: zero duration and zero height are not validated by the
\* constructors, and the division then raises: with duration = 0,
\* get_mean_speed and show_training_info raise ZeroDivisionError, and with
\* height = 0 a SportsWalking calculator's get_spent_calories raises
\* ZeroDivisionError; none of them returns a value.
C3_ZeroDivisionRaises ==
    /\ (ret.op \in {"get_mean_speed", "show_training_info"}
          /\ IsZero(Self.duration)) => ret.exc = "ZeroDivisionError"
    /\ (ret.op = "get_spent_calories" /\ Self.cls = "SportsWalking"
          /\ IsZero(Self.height)) => ret.exc = "ZeroDivisionError"

\* a SportsWalking calculator with height 0 and a nonzero duration was asked
\* for its calories
C3_Witness ==
    /\ ret.op = "get_spent_calories" /\ Self.cls = "SportsWalking"
    /\ IsZero(Self.height) /\ ~IsZero(Self.duration)
    /\ ret.exc = "ZeroDivisionError"

\* C3 as stated: with duration = 0, get_mean_speed and show_training_info
\* return a (non-finite) number instead of raising, and so does
\* get_spent_calories of a SportsWalking calculator with height = 0.
C3_ZeroReturnsValue ==
    /\ (ret.op \in {"get_mean_speed", "show_training_info"}
          /\ IsZero(Self.duration)) => ret.exc = None
    /\ (ret.op = "get_spent_calories" /\ Self.cls = "SportsWalking"
          /\ IsZero(Self.height)) => ret.exc = None

\* the line the script prints for a record that both steps accept
LineOf(package) ==
    get_message(show_training_info(read_package(package[1], package[2]).val).val)

\* C4: the script takes the records in list order and prints one line per
\* record, in that order; a record with an unknown code ends the run with
\* the uncaught ValueError: the lines of the records before it are printed,
\* and no line for it or for a later record.
C4_DriverInOrder ==
    /\ Len(stdout) = pc.i - 1
    /\ \A k \in 1..Len(stdout) : stdout[k] = LineOf(packages[k])
    /\ pc.at = "done" => Len(stdout) = Len(packages)
    /\ \A k \in 1..Len(packages) :
         packages[k][1] \notin KnownCodes =>
           /\ pc.i <= k
           /\ Len(stdout) < k
           /\ pc.at # "done"
           /\ (pc.i = k /\ pc.at # "read_package") =>
                /\ pc.at = "aborted"
                /\ err = [exc |-> "ValueError",
                          val |-> <<"Unknown type of training \"",
                                    packages[k][1], "\"">>]

\* two lines were printed and the third record's unknown code ended the run
C4_Witness ==
    /\ pc.at = "aborted" /\ pc.i = 3 /\ Len(stdout) = 2
    /\ err.exc = "ValueError"
    /\ stdout[1] # stdout[2]

\* C5: a second show_training_info on the same calculator returns a record
\* equal in all five fields to the first one's, and the calculator's
\* attributes are after every call what they were before the first.
C5_SummaryRepeatable ==
    ret.op = "show_training_info" =>
      /\ Self = ret.before
      /\ (ret.n >= 2 /\ ret.first.exc = None) =>
           /\ ret.exc = None
           /\ ret.val = ret.first.val

\* show_training_info was called twice in a row on a calculator that moves
C5_Witness ==
    /\ ret.op = "show_training_info" /\ ret.n >= 2 /\ ret.exc = None
    /\ ~IsZero(Self.action)

\* two Swimming calculators that agree on pool length, pool count and duration
SamePool(a, b) ==
    /\ a.length_pool = b.length_pool
    /\ a.count_pool = b.count_pool
    /\ a.duration = b.duration

\* C6: get_mean_speed of a Swimming calculator with a nonzero duration is
\* length_pool * count_pool / 1000 / duration, and it is the mean speed of
\* every other Swimming calculator with the same pool length, pool count and
\* duration, whatever its action count and weight.
C6_SwimSpeedIgnoresAction ==
    (ret.op = "get_mean_speed" /\ Self.cls = "Swimming"
       /\ ~IsZero(Self.duration)) =>
      /\ ret.exc = None
      /\ ret.val = Quot(Quot(Mul(Self.length_pool, Self.count_pool), Num(1000)),
                        Self.duration)
      /\ \A b \in 1..Len(heap) :
           SamePool(heap[b], Self) => get_mean_speed(heap[b]) = Ok(ret.val, ret.calls)

\* the mean speed was returned while the client holds another calculator of
\* the same pool and duration with another action count and another weight
C6_Witness ==
    /\ ret.op = "get_mean_speed" /\ ret.exc = None /\ ~IsZero(ret.val)
    /\ \E b \in 1..Len(heap) :
         /\ SamePool(heap[b], Self)
         /\ heap[b].action # Self.action
         /\ heap[b].weight # Self.weight

\* C7: get_distance is action * 0.65 / 1000 for Running and SportsWalking
\* and action * 1.38 / 1000 for Swimming, for every action count; and
\* Swimming's get_mean_speed does not run get_distance.
C7_Distance ==
    /\ ret.op = "get_distance" =>
         /\ ret.exc = None
         /\ Self.cls \in {"Running", "SportsWalking"} =>
              ret.val = Quot(Mul(Self.action, Frac(65, 100)), Num(1000))
         /\ Self.cls = "Swimming" =>
              ret.val = Quot(Mul(Self.action, Frac(138, 100)), Num(1000))
    /\ (ret.op = "get_mean_speed" /\ Self.cls = "Swimming") =>
         "Training.get_distance" \notin ret.calls

\* the distance of a Swimming calculator with a negative action count
C7_Witness ==
    /\ ret.op = "get_distance" /\ Self.cls = "Swimming" /\ Self.action.n < 0
    /\ ret.val = Frac(-138, 10)

\* the number of values the code's class takes
ArityOf(workout_type) ==
    CASE workout_type = "RUN" -> 3
      [] workout_type = "WLK" -> 4
      [] workout_type = "SWM" -> 5

\* C8: read_package with a valid code and a value sequence of another
\* length than the class takes (RUN 3, WLK 4, SWM 5) raises the TypeError
\* of the call of the class, not ValueError; no __init__ body ran and the
\* client holds no calculator it did not hold before.
C8_WrongArityRaises ==
    (ret.op = "read_package" /\ ret.args[1] \in KnownCodes
       /\ Len(ret.args[2]) # ArityOf(ret.args[1])) =>
      /\ ret.exc = "TypeError"
      /\ ret.calls = {}
      /\ heap = ret.before

\* a Swimming code with one value too many
C8_Witness ==
    /\ ret.op = "read_package" /\ ret.args[1] = "SWM" /\ Len(ret.args[2]) = 6
    /\ ret.exc = "TypeError"

\* C9: every calculator the factory returned is a Running, SportsWalking or
\* Swimming; no call on one runs Training.get_spent_calories or raises
\* NotImplementedError, and the summary or calorie call that returns has run
\* the get_spent_calories of the calculator's own class.
C9_AbstractUnreachable ==
    /\ \A o \in 1..Len(heap) :
         heap[o].cls \in {"Running", "SportsWalking", "Swimming"}
    /\ "Training.get_spent_calories" \notin ret.calls
    /\ ret.exc # "NotImplementedError"
    /\ (ret.op \in {"get_spent_calories", "show_training_info"}
          /\ ret.exc = None) =>
         {c \in ret.calls :
            c \in {"Training.get_spent_calories", "Running.get_spent_calories",
                   "SportsWalking.get_spent_calories",
                   "Swimming.get_spent_calories"}}
           = {Self.cls \o ".get_spent_calories"}

\* a summary of a Running calculator returned
C9_Witness ==
    /\ ret.op = "show_training_info" /\ ret.exc = None
    /\ Self.cls = "Running"
    /\ "Running.get_spent_calories" \in ret.calls

\* the calories each variant's formula gives for speed v
CaloriesOf(self, v) ==
    CASE self.cls = "Running" ->
           Mul(Quot(Mul(Add(Mul(Num(18), v), Frac(179, 100)), self.weight),
                    Num(1000)),
               Mul(self.duration, Num(60)))
      [] self.cls = "SportsWalking" ->
           Mul(Add(Mul(Frac(35, 1000), self.weight),
                   Mul(Mul(Quot(Sq(Mul(v, Frac(278, 1000))),
                                Quot(self.height, Num(100))),
                           Frac(29, 1000)),
                       self.weight)),
               Mul(self.duration, Num(60)))
      [] self.cls = "Swimming" ->
           Mul(Mul(Mul(Add(v, Frac(11, 10)), Num(2)), self.weight), self.duration)

\* C10: for a calculator with a nonzero duration (and, for SportsWalking, a
\* nonzero height) show_training_info returns the record of the class name,
\* the stored duration, the distance action * LEN_STEP / 1000, the variant's
\* mean speed and the variant's calories: for Running and SportsWalking the
\* speed is distance / duration, for Swimming it is
\* length_pool * count_pool / 1000 / duration and the distance is
\* action * 1.38 / 1000.
C10_SummaryFields ==
    (ret.op = "show_training_info" /\ ~IsZero(Self.duration)
       /\ (Self.cls = "SportsWalking" => ~IsZero(Self.height))) =>
      /\ ret.exc = None
      /\ ret.val.training_type = Self.cls
      /\ ret.val.duration = Self.duration
      /\ ret.val.distance =
           Quot(Mul(Self.action,
                    IF Self.cls = "Swimming" THEN Frac(138, 100)
                    ELSE Frac(65, 100)),
                Num(1000))
      /\ ret.val.speed =
           IF Self.cls = "Swimming"
           THEN Quot(Quot(Mul(Self.length_pool, Self.count_pool), Num(1000)),
                     Self.duration)
           ELSE Quot(ret.val.distance, Self.duration)
      /\ ret.val.calories = CaloriesOf(Self, ret.val.speed)

\* a Swimming summary whose speed is not its distance over its duration
C10_Witness ==
    /\ ret.op = "show_training_info" /\ ret.exc = None
    /\ Self.cls = "Swimming"
    /\ ret.val.speed # Quot(ret.val.distance, ret.val.duration)

=============================================================================
